---- MODULE Spec2Model ----
(***************************************************************************)
(* Model of DocumentationUpdater (src/.prompts/documentation_updater_agent *)
(* .py): change detection over file snapshots, markdown section patching,  *)
(* and the apply_updates run with its backup, changelog and state files.   *)
(*                                                                         *)
(* Text is a sequence of one-character strings; NL is the newline.  A      *)
(* Python dict is a sequence of <<key, value>> pairs with distinct keys,   *)
(* in insertion order.                                                     *)
(***************************************************************************)
EXTENDS Integers, Sequences, FiniteSets, TLC

VARIABLES
    patch,      \* one call of _replace_section: its arguments and its result
    fs,         \* the files of the repository outside the cache directory,
                \* in directory order: <<path, text>> pairs
    stateFile,  \* .prompts/.cache/doc_state.json
    changes,    \* what the last detect_changes returned
    changelog,  \* .prompts/.cache/CHANGELOG.md
    backups,    \* the backup files of the cache directory, by name
    run,        \* the apply_updates invocation: where it is, and its locals
    pre,        \* the files as they were when the invocation started
    stages,     \* the writes the invocation has completed, in order
    history,    \* the invocations that have returned, oldest first
    sched,      \* whether invocations are serialized, and the invocation
                \* that is not running now
    promptFile  \* .prompts/.cache/update_prompt.txt

vars == <<patch, fs, stateFile, changes, changelog, backups, run, pre, stages,
          history, sched, promptFile>>

-----------------------------------------------------------------------------
(* Bounds *)

\* longest document, in lines, given to _replace_section on its own
MaxLines == 4

\* most files in the repository, and most entries of a saved snapshot, when
\* detect_changes is checked on its own
MaxFiles == 2

\* longest target document, in lines, of an apply_updates run
MaxDocLines == 2

\* most section updates in one batch
MaxBatch == 2

-----------------------------------------------------------------------------
(* Text: str.split('\n'), '\n'.join, str.startswith, the `in` operator *)

NL == "\n"

RECURSIVE Split(_)
Split(s) ==
    IF \A i \in 1..Len(s) : s[i] # NL
    THEN <<s>>
    ELSE LET i == CHOOSE k \in 1..Len(s) :
                      s[k] = NL /\ \A j \in 1..(k - 1) : s[j] # NL
         IN  <<SubSeq(s, 1, i - 1)>> \o Split(SubSeq(s, i + 1, Len(s)))

RECURSIVE Join(_)
Join(ls) ==
    IF ls = <<>> THEN <<>>
    ELSE IF Len(ls) = 1 THEN ls[1]
    ELSE ls[1] \o <<NL>> \o Join(Tail(ls))

\* a file opened with open(path, 'r') and read: universal newlines turn
\* "\r\n" and a lone "\r" into "\n"
CR == "\r"

RECURSIVE UniversalNewlines(_)
UniversalNewlines(text) ==
    IF text = <<>> THEN <<>>
    ELSE IF text[1] # CR THEN <<text[1]>> \o UniversalNewlines(Tail(text))
    ELSE IF Len(text) >= 2 /\ text[2] = NL
    THEN <<NL>> \o UniversalNewlines(SubSeq(text, 3, Len(text)))
    ELSE <<NL>> \o UniversalNewlines(Tail(text))

StartsWith(s, p) == Len(s) >= Len(p) /\ SubSeq(s, 1, Len(p)) = p

Contains(s, t) ==
    \E i \in 0..(Len(s) - Len(t)) : SubSeq(s, i + 1, i + Len(t)) = t

H2Prefix == <<"#", "#", " ">>
H1Prefix == <<"#", " ">>

-----------------------------------------------------------------------------
(* DocumentationUpdater._replace_section *)

\* a heading of any level that contains the name
IsTargetHeading_AnyLevel(line, section_name) ==
    Contains(line, <<"#", " ">>) /\ StartsWith(line, <<"#">>)
        /\ Contains(line, section_name)

\* any line that contains the name, heading or not
IsTargetHeading_NameOnly(line, section_name) == Contains(line, section_name)

\* the test of the first `if` of the loop: an H2 line that contains the name
IsTargetHeading(line, section_name) ==
    StartsWith(line, H2Prefix) /\ Contains(line, section_name)

\* the loop body, from line i on, with the flag skip_until_next_section and
\* the result_lines built so far
RECURSIVE ReplaceLoop(_, _, _, _, _, _)
ReplaceLoop(lines, i, skip, result_lines, section_name, new_section_content) ==
    IF i > Len(lines) THEN result_lines
    ELSE LET line == lines[i] IN
         IF IsTargetHeading(line, section_name)
         THEN ReplaceLoop(lines, i + 1, TRUE,
                          Append(result_lines, new_section_content),
                          section_name, new_section_content)
         ELSE IF skip /\ ~StartsWith(line, H2Prefix) /\ ~StartsWith(line, H1Prefix)
         THEN ReplaceLoop(lines, i + 1, TRUE, result_lines,
                          section_name, new_section_content)
         ELSE ReplaceLoop(lines, i + 1, FALSE, Append(result_lines, line),
                          section_name, new_section_content)

result_lines_of(content, section_name, new_section_content) ==
    ReplaceLoop(Split(content), 1, FALSE, <<>>, section_name, new_section_content)

replace_section(content, section_name, new_section_content) ==
    Join(result_lines_of(content, section_name, new_section_content))

-----------------------------------------------------------------------------
(* Inputs of the patcher *)

LineA    == <<"#", "#", " ", "A">>
LineB    == <<"#", "#", " ", "B">>
LineAB   == <<"#", "#", " ", "A", "B">>
LineH1A  == <<"#", " ", "A">>
LineH3A  == <<"#", "#", "#", " ", "A">>
LineTxtA == <<"A">>
LineTxtX == <<"x">>

PatchLines == {LineA, LineB, LineAB, LineH1A, LineH3A, LineTxtA, LineTxtX}

SectionNames == {<<"A">>, <<"B">>}

\* replacements: one that carries the heading "## A", one that renames the
\* heading to "## B", one without a heading
NewA    == LineA \o <<NL, "n">>
NewB    == LineB \o <<NL, "n">>
NewBody == <<"n">>
\* one that carries the heading "## A" and a subsection "### A"
NewASub == LineA \o <<NL>> \o LineH3A

Replacements == {NewA, NewB, NewBody, NewASub}

LineSeqs(S, n) == UNION {[1..k -> S] : k \in 1..n}

PatchDocs == {Join(ls) : ls \in LineSeqs(PatchLines, MaxLines)}

NoPatch == [content |-> <<>>, section_name |-> <<>>,
            new_section_content |-> <<>>, result |-> <<>>, done |-> FALSE,
            again |-> <<>>, again_done |-> FALSE]

-----------------------------------------------------------------------------
(* Python dicts: <<key, value>> pairs, distinct keys, insertion order *)

Keys(d) == {d[i][1] : i \in 1..Len(d)}

HasKey(d, k) == \E i \in 1..Len(d) : d[i][1] = k

Get(d, k) == d[CHOOSE i \in 1..Len(d) : d[i][1] = k][2]

\* d[k] = v: in place when k is a key already, at the end otherwise
Put(d, k, v) ==
    IF HasKey(d, k)
    THEN [i \in 1..Len(d) |-> IF d[i][1] = k THEN <<k, v>> ELSE d[i]]
    ELSE Append(d, <<k, v>>)

KeySeq(d) == [i \in 1..Len(d) |-> d[i][1]]

Dicts(K, V, n) ==
    {d \in UNION {[1..k -> K \X V] : k \in 0..n} :
        \A i, j \in 1..Len(d) : d[i][1] = d[j][1] => i = j}

-----------------------------------------------------------------------------
(* DocumentationUpdater._get_repo_state, _load_state, detect_changes *)

TargetDoc     == "README.md"
StatePath     == ".prompts/.cache/doc_state.json"
ChangelogPath == ".prompts/.cache/CHANGELOG.md"
PromptPath    == ".prompts/.cache/update_prompt.txt"
\* any of the backup files, whose names end in the time of the backup
BackupPath    == ".prompts/.cache/README.md.backup.<time>"

\* the extension a path ends with
Suffix(path) ==
    CASE path = "a.sql"       -> "sql"
      [] path = "b.md"        -> "md"
      [] path = TargetDoc     -> "md"
      [] path = ChangelogPath -> "md"
      [] path = StatePath     -> "json"
      [] OTHER                -> "txt"

\* patterns, in the order the scan tries them
Patterns == <<"sql", "md", "pbix", "pbip", "yaml", "json", "py">>

\* `any(excl in str(filepath) for excl in exclude_patterns)`: of the paths of
\* the model, those under .prompts/.cache
IsExcluded(path) == path \in {StatePath, ChangelogPath, PromptPath, BackupPath}

\* hashlib.md5(...).hexdigest(): an equality token of the text
Md5(text) == <<"md5", text>>

\* the files rglob enumerates: the repository's, then the cache directory's
Enumerated(files, cachePaths) ==
    files \o [i \in 1..Len(cachePaths) |-> <<cachePaths[i], <<>>>>]

RECURSIVE ScanPatterns(_, _)
ScanPatterns(k, files) ==
    IF k > Len(Patterns) THEN <<>>
    ELSE LET Hit(f) == Suffix(f[1]) = Patterns[k] /\ ~IsExcluded(f[1])
             found == SelectSeq(files, Hit)
         IN  [i \in 1..Len(found) |-> <<found[i][1], Md5(found[i][2])>>]
             \o ScanPatterns(k + 1, files)

get_repo_state(files, cachePaths) == ScanPatterns(1, Enumerated(files, cachePaths))

Absent  == [kind |-> "absent",  file_hashes |-> <<>>]
Partial == [kind |-> "partial", file_hashes |-> <<>>]
Saved(state) == [kind |-> "json", file_hashes |-> state]

\* state files the program did not write: one that cannot be opened, JSON
\* that is not an object, an object without "file_hashes", and an object
\* whose "file_hashes" is null
Unreadable == [kind |-> "unreadable",     file_hashes |-> <<>>]
NotObject  == [kind |-> "json_notobject", file_hashes |-> <<>>]
NoHashes   == [kind |-> "json_nokey",     file_hashes |-> <<>>]
NullHashes == [kind |-> "json_null",      file_hashes |-> <<>>]

\* the mapping _load_state returns: {} from the early return, from the
\* default of data.get and from the except branch
load_state(file) ==
    IF file.kind = "absent" THEN <<>>
    ELSE IF file.kind = "json" THEN file.file_hashes
    ELSE <<>>

\* data.get('file_hashes', {}) finds the key and returns its value, None,
\* instead of a mapping
load_state_None(file) == file.kind = "json_null"

\* the digests never compared: nothing is ever reported as modified
detect_changes_NoCompare(current_state, previous_state) ==
    LET Added(e)   == ~HasKey(previous_state, e[1])
        Removed(e) == ~HasKey(current_state, e[1])
    IN  [added    |-> KeySeq(SelectSeq(current_state, Added)),
         modified |-> <<>>,
         removed  |-> KeySeq(SelectSeq(previous_state, Removed))]

\* a changed file reported in added as well as in modified
detect_changes_ModifiedAlsoAdded(current_state, previous_state) ==
    LET Added(e)    == \/ ~HasKey(previous_state, e[1])
                       \/ Get(previous_state, e[1]) # e[2]
        Modified(e) == /\ HasKey(previous_state, e[1])
                       /\ Get(previous_state, e[1]) # e[2]
        Removed(e)  == ~HasKey(current_state, e[1])
    IN  [added    |-> KeySeq(SelectSeq(current_state, Added)),
         modified |-> KeySeq(SelectSeq(current_state, Modified)),
         removed  |-> KeySeq(SelectSeq(previous_state, Removed))]

\* the two loops of detect_changes, over the items of current_state and over
\* the keys of previous_state
detect_changes(current_state, previous_state) ==
    LET Added(e)    == ~HasKey(previous_state, e[1])
        Modified(e) == /\ HasKey(previous_state, e[1])
                       /\ Get(previous_state, e[1]) # e[2]
        Removed(e)  == ~HasKey(current_state, e[1])
    IN  [added    |-> KeySeq(SelectSeq(current_state, Added)),
         modified |-> KeySeq(SelectSeq(current_state, Modified)),
         removed  |-> KeySeq(SelectSeq(previous_state, Removed))]

\* a text file of the cache directory: absent, or its text (a changelog is
\* the sequence of its entry blocks, first block first)
NoFile == [exists |-> FALSE, text |-> <<>>]
File(t) == [exists |-> TRUE, text |-> t]

\* the cache files that exist
CachePaths ==
    (IF stateFile.kind = "absent" THEN <<>> ELSE <<StatePath>>)
    \o (IF changelog.exists THEN <<ChangelogPath>> ELSE <<>>)
    \o (IF promptFile.exists THEN <<PromptPath>> ELSE <<>>)
    \o (IF backups # <<>> THEN <<BackupPath>> ELSE <<>>)

\* an invocation before it starts: its position, its arguments, its locals
\* (existing: the changelog text read by _save_changelog; loaded: what
\* _load_state returned), what it printed, and how it ended
Idle == [pc |-> "idle", updates |-> <<>>, now |-> 0, current_content |-> <<>>,
         updated_content |-> <<>>, existing |-> <<>>, current_state |-> <<>>,
         loaded |-> <<>>, printed |-> <<>>, outcome |-> "none"]

NoPre == [fs |-> <<>>, stateFile |-> Absent, changelog |-> NoFile, backups |-> <<>>]

\* no second invocation
NoSched == [serialized |-> TRUE,
            waiting |-> [run |-> Idle, pre |-> NoPre, stages |-> <<>>]]

\* the result of detect_changes: not yet called, returned (done) or ended by
\* an exception (raised)
NoChanges == [done |-> FALSE, raised |-> FALSE,
              added |-> <<>>, modified |-> <<>>, removed |-> <<>>]

\* detect_changes: with previous_state None, `file_path not in previous_state`
\* or `for file_path in previous_state` raises TypeError
DetectChanges ==
    /\ ~changes.done /\ ~changes.raised
    /\ IF load_state_None(stateFile)
       THEN changes' = [NoChanges EXCEPT !.raised = TRUE]
       ELSE LET r == detect_changes(get_repo_state(fs, CachePaths),
                                    load_state(stateFile))
            IN  changes' = [done |-> TRUE, raised |-> FALSE, added |-> r.added,
                            modified |-> r.modified, removed |-> r.removed]
    /\ UNCHANGED <<promptFile, history, sched, patch, fs, stateFile, changelog,
                   backups, run, pre, stages>>

DiffPaths == {"a.sql", "b.md", TargetDoc, "notes.txt"}
DiffTexts == {<<"x">>, <<"y">>}

InitDiff ==
    /\ patch = NoPatch
    /\ changelog = NoFile /\ backups = <<>>
    /\ run = Idle /\ pre = NoPre /\ stages = <<>>
    /\ promptFile = NoFile
    /\ history = <<>> /\ sched = NoSched
    /\ fs \in Dicts(DiffPaths, DiffTexts, MaxFiles)
    /\ stateFile \in {Absent, Partial, Unreadable, NotObject, NoHashes, NullHashes}
           \cup {Saved(d) : d \in Dicts(DiffPaths \ {"notes.txt"},
                                        {Md5(t) : t \in DiffTexts}, MaxFiles)}
    /\ changes = NoChanges

NextDiff == DetectChanges

SpecDiff == InitDiff /\ [][NextDiff]_vars

InitPatch ==
    /\ fs = <<>> /\ stateFile = Absent /\ changes = NoChanges
    /\ changelog = NoFile /\ backups = <<>>
    /\ run = Idle /\ pre = NoPre /\ stages = <<>>
    /\ promptFile = NoFile
    /\ history = <<>> /\ sched = NoSched
    /\ patch \in {[content |-> c, section_name |-> s, new_section_content |-> r,
                result |-> <<>>, done |-> FALSE,
                again |-> <<>>, again_done |-> FALSE] :
               c \in PatchDocs, s \in SectionNames, r \in Replacements}

ReplaceSection ==
    /\ ~patch.done
    /\ patch' = [patch EXCEPT
                   !.result = replace_section(patch.content, patch.section_name,
                                              patch.new_section_content),
                   !.done = TRUE]
    /\ UNCHANGED <<promptFile, history, sched, fs, stateFile, changes,
                   changelog, backups, run, pre, stages>>

\* _replace_section called on its own result with the same section_name
\* and new_section_content
ReplaceSectionAgain ==
    /\ patch.done /\ ~patch.again_done
    /\ patch' = [patch EXCEPT
                   !.again = replace_section(patch.result, patch.section_name,
                                             patch.new_section_content),
                   !.again_done = TRUE]
    /\ UNCHANGED <<promptFile, history, sched, fs, stateFile, changes,
                   changelog, backups, run, pre, stages>>

NextPatch ==
    \/ ReplaceSection
    \/ ReplaceSectionAgain

SpecPatch == InitPatch /\ [][NextPatch]_vars

-----------------------------------------------------------------------------
(* DocumentationUpdater.apply_updates and _save_changelog *)

\* a dict read with d[k] raises KeyError when k is missing
SectionFields == {"section_name", "updated_content", "reason"}

sections_to_update(updates) ==
    IF "sections_to_update" \in DOMAIN updates
    THEN updates.sections_to_update ELSE <<>>

\* the `for section_update in ...` loop of apply_updates from entry i on:
\* ok is FALSE when an entry raised KeyError
RECURSIVE ApplyLoop(_, _, _)
ApplyLoop(sections, i, updated_content) ==
    IF i > Len(sections) THEN [ok |-> TRUE, content |-> updated_content]
    ELSE IF ~(SectionFields \subseteq DOMAIN sections[i])
    THEN [ok |-> FALSE, content |-> updated_content]
    ELSE ApplyLoop(sections, i + 1,
                   replace_section(updated_content, sections[i].section_name,
                                   sections[i].updated_content))

\* every update applied to current_content, the last assignment kept
patch_sections_LastOnOriginal(updates, current_content) ==
    LET sections == sections_to_update(updates)
        all == ApplyLoop(sections, 1, current_content)
    IN  IF ~all.ok \/ sections = <<>> THEN all
        ELSE ApplyLoop(<<sections[Len(sections)]>>, 1, current_content)

\* updated_content after the loop, which starts from current_content
patch_sections(updates, current_content) ==
    ApplyLoop(sections_to_update(updates), 1, current_content)

\* what the loop prints: for every entry it gets through, matched or not,
\* "Updating section: <name>" and "Reason: <reason>"
RECURSIVE LoopPrints(_, _)
LoopPrints(sections, i) ==
    IF i > Len(sections) \/ ~(SectionFields \subseteq DOMAIN sections[i])
    THEN <<>>
    ELSE <<[msg |-> "Updating section", section_name |-> sections[i].section_name,
            reason |-> sections[i].reason]>>
         \o LoopPrints(sections, i + 1)

\* the entry block _save_changelog builds; ok is FALSE on KeyError
changelog_entry(updates, now) ==
    LET sections == sections_to_update(updates) IN
    [ok |-> \A i \in 1..Len(sections) :
                {"section_name", "reason"} \subseteq DOMAIN sections[i],
     entry |-> [time |-> now,
                changes |-> IF "changelog_entry" \in DOMAIN updates
                            THEN updates.changelog_entry
                            ELSE <<"Documentation updated">>,
                sections |-> [i \in 1..Len(sections) |->
                                <<sections[i].section_name, sections[i].reason>>]]]

\* target_doc with its path separators replaced, then ".backup.", then the
\* time to the second
BackupName(now) == <<"README.md.backup", now>>

Disk == [fs |-> fs, stateFile |-> stateFile, changelog |-> changelog,
         backups |-> backups]

Fail(outcome) == [run EXCEPT !.pc = "done", !.outcome = outcome]

StartApply(updates, now) ==
    /\ run.pc = "idle"
    /\ run' = [run EXCEPT !.pc = "exists", !.updates = updates, !.now = now]
    /\ pre' = Disk
    /\ UNCHANGED <<promptFile, history, sched, patch, fs, stateFile, changes,
                   changelog, backups, stages>>

\* the check made only after a backup file has been opened
CheckExists_AfterBackup ==
    /\ run.pc = "exists"
    /\ IF HasKey(fs, TargetDoc)
       THEN run' = [run EXCEPT !.pc = "read"] /\ UNCHANGED backups
       ELSE /\ run' = Fail("not_found")
            /\ backups' = Put(backups, BackupName(run.now), <<>>)
    /\ UNCHANGED <<promptFile, history, sched, patch, fs, stateFile, changes,
                   changelog, pre, stages>>

\* `if not doc_path.exists(): ... return`
CheckExists ==
    /\ run.pc = "exists"
    /\ run' = IF HasKey(fs, TargetDoc) THEN [run EXCEPT !.pc = "read"]
              ELSE Fail("not_found")
    /\ UNCHANGED <<promptFile, history, sched, patch, fs, stateFile, changes,
                   changelog, backups, pre, stages>>

\* `with open(doc_path, 'r', encoding='utf-8') as f: current_content = f.read()`
ReadDoc ==
    /\ run.pc = "read"
    /\ \/ run' = [run EXCEPT !.pc = "backup",
                             !.current_content =
                                 UniversalNewlines(Get(fs, TargetDoc))]
       \/ run' = Fail("read_failed")
    /\ UNCHANGED <<promptFile, history, sched, patch, fs, stateFile, changes,
                   changelog, backups, pre, stages>>

\* a failed backup write that does not stop the run
WriteBackup_IgnoreFailure ==
    /\ run.pc = "backup"
    /\ \/ /\ backups' = Put(backups, BackupName(run.now), run.current_content)
          /\ stages' = Append(stages, "backup")
       \/ UNCHANGED <<backups, stages>>
    /\ run' = [run EXCEPT !.pc = "patch"]
    /\ UNCHANGED <<promptFile, history, sched, patch, fs, stateFile, changes,
                   changelog, pre>>

\* open(backup_path, 'w') and f.write(current_content): the open may fail, the
\* write may fail after the open has created or emptied the file
WriteBackup ==
    /\ run.pc = "backup"
    /\ \/ /\ backups' = Put(backups, BackupName(run.now), run.current_content)
          /\ stages' = Append(stages, "backup")
          /\ run' = [run EXCEPT !.pc = "patch"]
       \/ /\ run' = Fail("backup_failed")
          /\ UNCHANGED <<backups, stages>>
       \/ /\ backups' = Put(backups, BackupName(run.now), <<>>)
          /\ run' = Fail("backup_failed")
          /\ UNCHANGED stages
    /\ UNCHANGED <<promptFile, history, sched, patch, fs, stateFile, changes,
                   changelog, pre>>

PatchSections ==
    /\ run.pc = "patch"
    /\ LET r == patch_sections(run.updates, run.current_content) IN
       run' = [(IF r.ok
                 THEN [run EXCEPT !.pc = "write", !.updated_content = r.content]
                 ELSE Fail("key_error"))
               EXCEPT !.printed = LoopPrints(sections_to_update(run.updates), 1)]
    /\ UNCHANGED <<promptFile, history, sched, patch, fs, stateFile, changes,
                   changelog, backups, pre, stages>>

\* the state saved as soon as the document is rewritten, before the changelog
WriteDoc_ThenSaveState ==
    /\ run.pc = "write"
    /\ \/ /\ fs' = Put(fs, TargetDoc, run.updated_content)
          /\ stateFile' = Saved(get_repo_state(fs', CachePaths))
          /\ stages' = Append(stages, "document")
          /\ run' = [run EXCEPT !.pc = "changelog"]
       \/ /\ run' = Fail("write_failed")
          /\ UNCHANGED <<fs, stateFile, stages>>
       \/ /\ fs' = Put(fs, TargetDoc, <<>>)
          /\ run' = Fail("write_failed")
          /\ UNCHANGED <<stateFile, stages>>
    /\ UNCHANGED <<promptFile, history, sched, patch, changes, changelog,
                   backups, pre>>

\* `with open(doc_path, 'w', encoding='utf-8') as f: f.write(updated_content)`:
\* the open may fail, the write may fail after the open has emptied the file
WriteDoc ==
    /\ run.pc = "write"
    /\ \/ /\ fs' = Put(fs, TargetDoc, run.updated_content)
          /\ stages' = Append(stages, "document")
          /\ run' = [run EXCEPT !.pc = "changelog"]
       \/ /\ run' = Fail("write_failed")
          /\ UNCHANGED <<fs, stages>>
       \/ /\ fs' = Put(fs, TargetDoc, <<>>)
          /\ run' = Fail("write_failed")
          /\ UNCHANGED stages
    /\ UNCHANGED <<promptFile, history, sched, patch, stateFile, changes,
                   changelog, backups, pre>>

\* the changelog text as f.read() returns it: the line ends inside every
\* entry block go through the universal-newlines translation
read_changelog(text) ==
    [i \in 1..Len(text) |->
        LET e == text[i] IN
        [time     |-> e.time,
         changes  |-> UniversalNewlines(e.changes),
         sections |-> [j \in 1..Len(e.sections) |->
                         <<UniversalNewlines(e.sections[j][1]), e.sections[j][2]>>]]]

\* _save_changelog, first half: the entry is built, then the existing text
\* is read when the file exists (no handler around the read)
ReadChangelog ==
    /\ run.pc = "changelog"
    /\ LET e == changelog_entry(run.updates, run.now) IN
       \/ /\ e.ok
          /\ run' = [run EXCEPT !.pc = "changelog_write",
                                !.existing = read_changelog(changelog.text)]
       \/ /\ ~e.ok
          /\ run' = Fail("key_error")
       \/ /\ e.ok /\ changelog.exists
          /\ run' = Fail("changelog_unreadable")
    /\ UNCHANGED <<promptFile, history, sched, patch, fs, stateFile, changes,
                   changelog, backups, pre, stages>>

\* a changelog failure that is caught, the run going on to save the state
WriteChangelog_SwallowFailure ==
    /\ run.pc = "changelog_write"
    /\ \/ /\ changelog' = File(<<changelog_entry(run.updates, run.now).entry>>
                               \o run.existing)
          /\ stages' = Append(stages, "changelog")
       \/ UNCHANGED <<changelog, stages>>
    /\ run' = [run EXCEPT !.pc = "scan"]
    /\ UNCHANGED <<promptFile, history, sched, patch, fs, stateFile, changes,
                   backups, pre>>

\* the file rewritten with the entry alone, the text read dropped
WriteChangelog_Overwrite ==
    /\ run.pc = "changelog_write"
    /\ \/ /\ changelog' = File(<<changelog_entry(run.updates, run.now).entry>>)
          /\ stages' = Append(stages, "changelog")
          /\ run' = [run EXCEPT !.pc = "scan"]
       \/ /\ run' = Fail("changelog_failed")
          /\ UNCHANGED <<changelog, stages>>
       \/ /\ changelog' = File(<<>>)
          /\ run' = Fail("changelog_failed")
          /\ UNCHANGED stages
    /\ UNCHANGED <<promptFile, history, sched, patch, fs, stateFile, changes,
                   backups, pre>>

\* _save_changelog, second half: the file rewritten with the entry in front
\* of the text read
WriteChangelog ==
    /\ run.pc = "changelog_write"
    /\ \/ /\ changelog' = File(<<changelog_entry(run.updates, run.now).entry>>
                               \o run.existing)
          /\ stages' = Append(stages, "changelog")
          /\ run' = [run EXCEPT !.pc = "scan"]
       \/ /\ run' = Fail("changelog_failed")
          /\ UNCHANGED <<changelog, stages>>
       \/ /\ changelog' = File(<<>>)
          /\ run' = Fail("changelog_failed")
          /\ UNCHANGED stages
    /\ UNCHANGED <<promptFile, history, sched, patch, fs, stateFile, changes,
                   backups, pre>>

\* the snapshot taken of the files as the run found them, before the
\* document was rewritten
ScanRepo_BeforeRewrite ==
    /\ run.pc = "scan"
    /\ run' = [run EXCEPT !.pc = "state",
                          !.current_state = get_repo_state(pre.fs, CachePaths)]
    /\ UNCHANGED <<promptFile, history, sched, patch, fs, stateFile, changes,
                   changelog, backups, pre, stages>>

\* a baseline saved without looking at the repository: every file is new to
\* the next run
ScanRepo_Empty ==
    /\ run.pc = "scan"
    /\ run' = [run EXCEPT !.pc = "state", !.current_state = <<>>]
    /\ UNCHANGED <<promptFile, history, sched, patch, fs, stateFile, changes,
                   changelog, backups, pre, stages>>

\* `current_state = self._get_repo_state()` at the end of apply_updates and
\* in the --reset-state branch of main
ScanRepo ==
    /\ run.pc = "scan"
    /\ run' = [run EXCEPT !.pc = "state",
                          !.current_state = get_repo_state(fs, CachePaths)]
    /\ UNCHANGED <<promptFile, history, sched, patch, fs, stateFile, changes,
                   changelog, backups, pre, stages>>

\* the file keeps the entries it had, the new ones added to them
save_state_Merge(file, state) ==
    LET old == load_state(file)
        Kept(e) == ~HasKey(state, e[1])
    IN  Saved(SelectSeq(old, Kept) \o state)

\* what _save_state leaves in the file when json.dump completes: the data
\* built from its argument alone
save_state(file, state) == Saved(state)

\* _save_state: open(self.state_file, 'w') empties the file before json.dump
\* writes it
SaveState ==
    /\ run.pc = "state"
    /\ \/ /\ stateFile' = save_state(stateFile, run.current_state)
          /\ stages' = Append(stages, "state")
          /\ run' = [run EXCEPT !.pc = "done", !.outcome = "ok"]
       \/ /\ run' = Fail("state_open_failed")
          /\ UNCHANGED <<stateFile, stages>>
       \/ /\ stateFile' = Partial
          /\ run' = Fail("state_write_failed")
          /\ UNCHANGED stages
    /\ UNCHANGED <<promptFile, history, sched, patch, fs, changes, changelog,
                   backups, pre>>

\* `previous_state = self._load_state()` of the invocation that follows,
\* when what it returns is a mapping (a None ends detect_changes with the
\* TypeError of DetectChanges)
LoadState ==
    /\ run.pc = "done"
    /\ ~load_state_None(stateFile)
    /\ run' = [run EXCEPT !.pc = "loaded", !.loaded = load_state(stateFile)]
    /\ UNCHANGED <<promptFile, history, sched, patch, fs, stateFile, changes,
                   changelog, backups, pre, stages>>

\* the state store alone: a scan of any repository saved over any earlier
\* state file, then loaded
InitStore ==
    /\ patch = NoPatch /\ changes = NoChanges
    /\ changelog = NoFile /\ backups = <<>>
    /\ promptFile = NoFile
    /\ history = <<>> /\ sched = NoSched /\ stages = <<>>
    /\ fs \in Dicts(DiffPaths, DiffTexts, MaxFiles)
    /\ stateFile \in {Absent, Partial}
           \cup {Saved(d) : d \in Dicts(DiffPaths \ {"notes.txt"},
                                        {Md5(t) : t \in DiffTexts}, MaxFiles)}
    /\ pre = Disk
    /\ run = [Idle EXCEPT !.pc = "scan"]

NextStore ==
    \/ ScanRepo
    \/ SaveState
    \/ LoadState

SpecStore == InitStore /\ [][NextStore]_vars

-----------------------------------------------------------------------------
(* Inputs of an apply_updates run *)

ApplyLines == {LineA, LineB}
ApplyDocs == {Join(ls) : ls \in LineSeqs(ApplyLines, MaxDocLines)}

\* a document whose lines end in "\r\n"
DocCRLF == LineA \o <<CR, NL>> \o LineB

GoodSections ==
    {[section_name |-> <<"A">>, updated_content |-> NewB, reason |-> "why"],
     [section_name |-> <<"B">>, updated_content |-> NewBody, reason |-> "why"]}

BadSections ==
    {[updated_content |-> NewBody, reason |-> "why"],
     [section_name |-> <<"A">>, reason |-> "why"],
     [section_name |-> <<"A">>, updated_content |-> NewBody]}

SectionLists == UNION {[1..k -> GoodSections \cup BadSections] : k \in 0..MaxBatch}

\* a summary text: a run of characters without line ends is one element
Summary == <<"summary">>

Batches ==
    {[sections_to_update |-> q, changelog_entry |-> Summary, timestamp |-> "t"] :
        q \in SectionLists}
    \cup {[sections_to_update |-> q, timestamp |-> "t"] : q \in SectionLists}
    \cup {[sections_to_update |-> q, changelog_entry |-> Summary] :
            q \in SectionLists}
    \cup {[changelog_entry |-> Summary, timestamp |-> "t"]}

\* what an earlier run left: a state file, or a changelog entry and a backup
OldEntry == [time |-> 1, changes |-> Summary, sections |-> <<>>]
OldState == <<<<"a.sql", Md5(<<"x">>)>>>>

Init ==
    /\ patch = NoPatch /\ changes = NoChanges
    /\ fs \in {<<<<"a.sql", <<"x">>>>>>}
           \cup {<<<<"a.sql", <<"x">>>>, <<TargetDoc, d>>>> :
                    d \in ApplyDocs \cup {DocCRLF}}
    /\ stateFile \in {Absent, Saved(OldState)}
    /\ \/ changelog = NoFile /\ backups = <<>>
       \/ changelog = File(<<OldEntry>>) /\ backups = <<<<BackupName(1), <<"x">>>>>>
    /\ run = Idle /\ pre = NoPre /\ stages = <<>>
    /\ promptFile = NoFile
    /\ history = <<>> /\ sched = NoSched

Next ==
    \/ \E b \in Batches, t \in {1, 2} : StartApply(b, t)
    \/ CheckExists
    \/ ReadDoc
    \/ WriteBackup
    \/ PatchSections
    \/ WriteDoc
    \/ ReadChangelog
    \/ WriteChangelog
    \/ ScanRepo
    \/ SaveState

Spec == Init /\ [][Next]_vars

-----------------------------------------------------------------------------
(* main --reset-state, and the --diff that follows it *)

\* `if updater.state_file.exists(): updater.state_file.unlink()`; the scan
\* and the save that follow are ScanRepo and SaveState
ResetUnlink ==
    /\ run.pc = "idle"
    /\ pre' = Disk
    /\ \/ /\ stateFile' = Absent
          /\ run' = [run EXCEPT !.pc = "scan"]
       \/ /\ stateFile.kind # "absent"
          /\ run' = Fail("unlink_failed")
          /\ UNCHANGED stateFile
    /\ UNCHANGED <<promptFile, history, sched, patch, fs, changes, changelog,
                   backups, stages>>

\* a tracked file edited by its owner after the reset
EditFile ==
    /\ run.pc = "done" /\ ~changes.done /\ ~changes.raised
    /\ fs = pre.fs
    /\ \E p \in Keys(fs), t \in DiffTexts :
          /\ Get(fs, p) # t
          /\ fs' = Put(fs, p, t)
    /\ UNCHANGED <<promptFile, history, sched, patch, stateFile, changes,
                   changelog, backups, run, pre, stages>>

\* the state files a reset may find
ResetPriorStates ==
    {Absent, Partial, NullHashes, Saved(OldState),
     Saved(<<<<"b.md", Md5(<<"x">>)>>, <<"a.sql", Md5(<<"y">>)>>>>)}

InitReset ==
    /\ patch = NoPatch /\ changes = NoChanges
    /\ changelog = NoFile /\ backups = <<>>
    /\ run = Idle /\ pre = NoPre /\ stages = <<>>
    /\ promptFile = NoFile
    /\ history = <<>> /\ sched = NoSched
    /\ fs \in Dicts(DiffPaths, DiffTexts, MaxFiles)
    /\ stateFile \in ResetPriorStates

NextReset ==
    \/ ResetUnlink
    \/ ScanRepo
    \/ SaveState
    \/ EditFile
    \/ run.pc = "done" /\ DetectChanges

SpecReset == InitReset /\ [][NextReset]_vars

-----------------------------------------------------------------------------
(* Successive --apply invocations by one writer *)

MaxRuns == 2

\* a summary of two lines, as a file written with "\r\n" line ends gives it
SummaryCRLF == <<"line1", CR, NL, "line2">>

RunBatches ==
    {[sections_to_update |->
         <<[section_name |-> <<"A">>, updated_content |-> NewB, reason |-> "why"]>>,
      changelog_entry |-> Summary, timestamp |-> "t"],
     [sections_to_update |->
         <<[section_name |-> <<"B">>, updated_content |-> NewBody, reason |-> "why"]>>,
      changelog_entry |-> SummaryCRLF, timestamp |-> "t"]}

\* apply_updates has returned and the process exited; the program is started
\* again with the files as that run left them
NextInvocation ==
    /\ run.pc = "done" /\ run.outcome = "ok"
    /\ history' = Append(history, [updates |-> run.updates, now |-> run.now,
                                   before |-> pre.changelog])
    /\ run' = Idle
    /\ stages' = <<>>
    /\ UNCHANGED <<promptFile, sched, patch, fs, stateFile, changes, changelog,
                   backups, pre>>

InitRuns ==
    /\ patch = NoPatch /\ changes = NoChanges
    /\ fs = <<<<"a.sql", <<"x">>>>, <<TargetDoc, Join(<<LineA, LineB>>)>>>>
    /\ stateFile \in {Absent, Saved(OldState)}
    /\ \/ changelog = NoFile /\ backups = <<>>
       \/ changelog = File(<<OldEntry>>) /\ backups = <<<<BackupName(1), <<"x">>>>>>
    /\ run = Idle /\ pre = NoPre /\ stages = <<>>
    /\ promptFile = NoFile
    /\ history = <<>> /\ sched = NoSched

NextRuns ==
    \/ /\ Len(history) < MaxRuns
       /\ \E b \in RunBatches : StartApply(b, Len(history) + 2)
    \/ CheckExists
    \/ ReadDoc
    \/ WriteBackup
    \/ PatchSections
    \/ WriteDoc
    \/ ReadChangelog
    \/ WriteChangelog
    \/ ScanRepo
    \/ SaveState
    \/ NextInvocation
    \/ run.pc = "done" /\ DetectChanges

SpecRuns == InitRuns /\ [][NextRuns]_vars

-----------------------------------------------------------------------------
(* Two --apply invocations on the same repository *)

\* the two batches: each patches a section the other leaves alone
ConcBatches ==
    {[sections_to_update |->
         <<[section_name |-> <<"A">>, updated_content |-> NewA, reason |-> "why"]>>,
      changelog_entry |-> <<"first">>, timestamp |-> "t"],
     [sections_to_update |->
         <<[section_name |-> <<"B">>, updated_content |-> NewB, reason |-> "why"]>>,
      changelog_entry |-> <<"second">>, timestamp |-> "t"]}

\* the batch of the invocation that is not running now, once it has started
Taken == IF sched.waiting.run.pc = "idle" THEN {} ELSE {sched.waiting.run.updates}

\* the processor goes to the other invocation: at any of its file operations
\* when nothing serializes the two, only before it starts or after it ends
\* when they are serialized
Switch ==
    /\ ~sched.serialized \/ run.pc \in {"idle", "done"}
    /\ run' = sched.waiting.run
    /\ pre' = sched.waiting.pre
    /\ stages' = sched.waiting.stages
    /\ sched' = [sched EXCEPT !.waiting = [run |-> run, pre |-> pre,
                                           stages |-> stages]]
    /\ UNCHANGED <<promptFile, history, patch, fs, stateFile, changes,
                   changelog, backups>>

InitConc ==
    /\ patch = NoPatch /\ changes = NoChanges
    /\ fs = <<<<"a.sql", <<"x">>>>, <<TargetDoc, Join(<<LineA, LineB>>)>>>>
    /\ stateFile = Absent
    /\ changelog = NoFile /\ backups = <<>>
    /\ run = Idle /\ pre = NoPre /\ stages = <<>>
    /\ history = <<>> /\ promptFile = NoFile
    /\ sched \in {[NoSched EXCEPT !.serialized = s] : s \in BOOLEAN}

NextConc ==
    \/ \E b \in ConcBatches \ Taken :
          StartApply(b, IF sched.waiting.run.pc = "idle" THEN 1 ELSE 2)
    \/ CheckExists
    \/ ReadDoc
    \/ WriteBackup
    \/ PatchSections
    \/ WriteDoc
    \/ ReadChangelog
    \/ WriteChangelog
    \/ ScanRepo
    \/ SaveState
    \/ Switch

SpecConc == InitConc /\ [][NextConc]_vars

-----------------------------------------------------------------------------
(* show_diff, called again and again *)

MaxDiffs == 3

\* _read_file(target_doc): the text of the document, or a message in its place
read_file(files, filepath) ==
    IF HasKey(files, filepath) THEN UniversalNewlines(Get(files, filepath))
    ELSE <<"(File not found)">>

\* generate_update_prompt: the three file lists and the current document
generate_update_prompt(r, files) ==
    [added |-> r.added, modified |-> r.modified, removed |-> r.removed,
     document |-> read_file(files, TargetDoc)]

\* a diff that also saves what it saw as the new baseline
ShowDiff_SavesState ==
    /\ Len(history) < MaxDiffs
    /\ IF load_state_None(stateFile)
       THEN /\ changes' = [NoChanges EXCEPT !.raised = TRUE]
            /\ UNCHANGED <<promptFile, stateFile>>
       ELSE LET r == detect_changes(get_repo_state(fs, CachePaths),
                                    load_state(stateFile))
            IN  /\ changes' = [done |-> TRUE, raised |-> FALSE, added |-> r.added,
                               modified |-> r.modified, removed |-> r.removed]
                /\ promptFile' = File(<<generate_update_prompt(r, fs)>>)
                /\ stateFile' = Saved(get_repo_state(fs, CachePaths))
    /\ history' = Append(history, changes')
    /\ UNCHANGED <<sched, patch, fs, changelog, backups, run, pre, stages>>

\* show_diff: detect_changes, the prompt built from its result, and the prompt
\* written to update_prompt.txt (the open or the write may fail)
ShowDiff ==
    /\ Len(history) < MaxDiffs
    /\ IF load_state_None(stateFile)
       THEN /\ changes' = [NoChanges EXCEPT !.raised = TRUE]
            /\ UNCHANGED promptFile
       ELSE LET r == detect_changes(get_repo_state(fs, CachePaths),
                                    load_state(stateFile))
            IN  /\ changes' = [done |-> TRUE, raised |-> FALSE, added |-> r.added,
                               modified |-> r.modified, removed |-> r.removed]
                /\ \/ promptFile' = File(<<generate_update_prompt(r, fs)>>)
                   \/ UNCHANGED promptFile
                   \/ promptFile' = File(<<>>)
    /\ history' = Append(history, changes')
    /\ UNCHANGED <<sched, patch, fs, stateFile, changelog, backups, run, pre,
                   stages>>

InitShow ==
    /\ patch = NoPatch /\ changes = NoChanges
    /\ changelog \in {NoFile, File(<<OldEntry>>)}
    /\ backups \in {<<>>, <<<<BackupName(1), <<"x">>>>>>}
    /\ run = Idle /\ stages = <<>>
    /\ promptFile = NoFile
    /\ history = <<>> /\ sched = NoSched
    /\ fs \in Dicts(DiffPaths, DiffTexts, MaxFiles)
    /\ stateFile \in ResetPriorStates
    /\ pre = Disk

NextShow == ShowDiff

SpecShow == InitShow /\ [][NextShow]_vars

-----------------------------------------------------------------------------
(* What the claims about _replace_section speak of, stated on the input     *)
(* alone: the H2 lines that contain the name, and where a section ends.     *)

IsH2With(line, name) ==
    /\ Len(line) >= 3
    /\ line[1] = "#" /\ line[2] = "#" /\ line[3] = " "
    /\ \E i \in 1..Len(line) : SubSeq(line, i, i + Len(name) - 1) = name

IsBoundary(line) ==
    \/ Len(line) >= 3 /\ line[1] = "#" /\ line[2] = "#" /\ line[3] = " "
    \/ Len(line) >= 2 /\ line[1] = "#" /\ line[2] = " "

Matches(lines, name) == {i \in 1..Len(lines) : IsH2With(lines[i], name)}

Min(S) == CHOOSE x \in S : \A y \in S : x <= y

\* index of the line that ends the section starting at line i
SectionEnd(lines, i) ==
    LET B == {j \in (i + 1)..Len(lines) : IsBoundary(lines[j])}
    IN  IF B = {} THEN Len(lines) + 1 ELSE Min(B)

Occurrences(s, t) ==
    Cardinality({i \in 0..(Len(s) - Len(t)) : SubSeq(s, i + 1, i + Len(t)) = t})

HasBlock(ls, block) ==
    \E i \in 0..(Len(ls) - Len(block)) : SubSeq(ls, i + 1, i + Len(block)) = block

\* the document with only the section at line i replaced
SpliceAt(lines, i, new) ==
    Join(SubSeq(lines, 1, i - 1) \o <<new>>
         \o SubSeq(lines, SectionEnd(lines, i), Len(lines)))

PatchIn == Split(patch.content)
PatchHits == Matches(PatchIn, patch.section_name)

\* C2: when several "## " headings contain section_name, only the first such
\* section is replaced: the replacement text appears exactly once in the
\* output and every later matching section is still there, unchanged.
C2_OnlyFirstMatchReplaced ==
    (patch.done /\ Cardinality(PatchHits) >= 2) =>
        /\ Occurrences(patch.result, patch.new_section_content) = 1
        /\ \A k \in PatchHits \ {Min(PatchHits)} :
              HasBlock(Split(patch.result),
                       SubSeq(PatchIn, k, SectionEnd(PatchIn, k) - 1))

\* C3: when the target section is found, exactly the span from the matched
\* heading up to (excluding) the next "## " line, the next "# " line or the
\* end of the document is replaced by the replacement; all lines before and
\* after the span are kept verbatim, in order.
C3_SpanReplacedRestVerbatim ==
    (patch.done /\ PatchHits # {}) =>
        patch.result = SpliceAt(PatchIn, Min(PatchHits), patch.new_section_content)

\* C4: if no line starts with "## " and contains section_name, the output is
\* the input, line for line.
C4_NoMatchIdentity ==
    (patch.done /\ PatchHits = {}) =>
        /\ patch.result = patch.content
        /\ Split(patch.result) = PatchIn

\* the name occurs in body text, in a "# " heading and in a "### " heading,
\* and in no "## " heading
C4_Witness ==
    /\ patch.done /\ PatchHits = {}
    /\ patch.section_name = <<"A">>
    /\ {LineH1A, LineH3A, LineTxtA} \subseteq {PatchIn[i] : i \in 1..Len(PatchIn)}
    /\ patch.result = patch.content

\* a replacement that carries its own heading: its first line is an H2 line
\* with the name, and no later line of it starts a section
SelfHeaded(new, name) ==
    LET ls == Split(new) IN
    /\ IsH2With(ls[1], name)
    /\ \A i \in 2..Len(ls) : ~IsBoundary(ls[i])

\* C25: _replace_section is idempotent for self-headed replacements: when the
\* replacement's first line is a "## " heading containing section_name and
\* none of its other lines starts with "## " or "# ", patching the patched
\* document again with the same arguments gives the patched document.
C25_SelfHeadedIdempotent ==
    (patch.again_done
        /\ SelfHeaded(patch.new_section_content, patch.section_name)) =>
        patch.again = patch.result

\* a document patched twice in which the first patch replaced a section by a
\* heading with a subsection that repeats the name
C25_Witness ==
    /\ patch.again_done
    /\ patch.section_name = <<"A">> /\ patch.new_section_content = NewASub
    /\ patch.result # patch.content
    /\ patch.again = patch.result

-----------------------------------------------------------------------------
(* Claims about detect_changes *)

Scanned == get_repo_state(fs, CachePaths)
Loaded  == load_state(stateFile)
ToSet(q) == {q[i] : i \in 1..Len(q)}
NoRepeat(q) == \A i, j \in 1..Len(q) : q[i] = q[j] => i = j

\* C1: added is exactly the paths of the scanned state absent from the loaded
\* state, modified exactly the paths in both whose digests differ, removed
\* exactly the paths of the loaded state absent from the scanned state; a path
\* with the same digest in both is in no category.
C1_DiffCategories ==
    changes.done =>
        /\ ToSet(changes.added) = Keys(Scanned) \ Keys(Loaded)
        /\ ToSet(changes.modified) =
              {p \in Keys(Scanned) \cap Keys(Loaded) : Get(Scanned, p) # Get(Loaded, p)}
        /\ ToSet(changes.removed) = Keys(Loaded) \ Keys(Scanned)
        /\ NoRepeat(changes.added) /\ NoRepeat(changes.modified)
        /\ NoRepeat(changes.removed)
        /\ \A p \in Keys(Scanned) \cap Keys(Loaded) :
              Get(Scanned, p) = Get(Loaded, p) =>
                  p \notin ToSet(changes.added) \cup ToSet(changes.modified)
                              \cup ToSet(changes.removed)

\* the scenario of the spec: a.sql saved with one digest, now with another
C1_Witness ==
    /\ changes.done
    /\ Loaded = <<<<"a.sql", Md5(<<"x">>)>>>>
    /\ fs = <<<<"a.sql", <<"y">>>>>>
    /\ changes.modified = <<"a.sql">>
    /\ changes.added = <<>> /\ changes.removed = <<>>

\* the place of a path in lexicographic (code point) order: capitals come
\* before small letters
PathRank(path) ==
    CASE path = "README.md" -> 1
      [] path = "a.sql"     -> 2
      [] path = "b.md"      -> 3
      [] path = "notes.txt" -> 4

InPathOrder(q) ==
    \A i, j \in 1..Len(q) : i < j => PathRank(q[i]) < PathRank(q[j])

\* C18: each of the lists added, modified and removed that detect_changes
\* returns is in lexicographic path order, whatever the order in which the
\* scan or the state file enumerates the paths.
C18_ListsInPathOrder ==
    changes.done =>
        /\ InPathOrder(changes.added)
        /\ InPathOrder(changes.modified)
        /\ InPathOrder(changes.removed)

\* the symmetric difference of the path sets of the two snapshots
SymmetricDifference ==
    (Keys(Scanned) \ Keys(Loaded)) \cup (Keys(Loaded) \ Keys(Scanned))

PairwiseDisjoint ==
    /\ ToSet(changes.added) \cap ToSet(changes.modified) = {}
    /\ ToSet(changes.added) \cap ToSet(changes.removed) = {}
    /\ ToSet(changes.modified) \cap ToSet(changes.removed) = {}

\* C19 as stated: added, modified and removed are pairwise disjoint and their
\* union is the symmetric difference of the path sets of the two snapshots.
C19_UnionIsSymmetricDifference ==
    changes.done =>
        /\ PairwiseDisjoint
        /\ ToSet(changes.added) \cup ToSet(changes.modified)
              \cup ToSet(changes.removed) = SymmetricDifference

\* C19, amended: added, modified and removed are pairwise disjoint, added and
\* removed together are the symmetric difference of the path sets, and every
\* modified path is in both path sets.
C19_AddedRemovedAreSymmetricDifference ==
    changes.done =>
        /\ PairwiseDisjoint
        /\ ToSet(changes.added) \cup ToSet(changes.removed) = SymmetricDifference
        /\ ToSet(changes.modified) \subseteq Keys(Scanned) \cap Keys(Loaded)

\* a diff with a path in each of the three categories
C19_Witness ==
    /\ changes.done
    /\ changes.added # <<>> /\ changes.modified # <<>> /\ changes.removed # <<>>
    /\ Keys(Scanned) # Keys(Loaded)

\* C12: when the state file is absent, unreadable or does not parse to the
\* expected structure, _load_state returns an empty mapping without raising,
\* and detect_changes then returns every tracked file as added and nothing as
\* modified or removed.
C12_BadStateFileIsEmptyBaseline ==
    stateFile.kind # "json" =>
        /\ ~changes.raised
        /\ changes.done =>
              /\ ToSet(changes.added) = Keys(Scanned)
              /\ changes.modified = <<>> /\ changes.removed = <<>>

-----------------------------------------------------------------------------
(* Claims about apply_updates *)

Started == run.pc # "idle"
Patched ==
    \/ run.pc \in {"write", "changelog", "changelog_write", "scan", "state"}
    \/ "document" \in ToSet(stages)

\* the document after the first k updates of the batch: update k applied to
\* the document after the first k - 1
RECURSIVE AfterUpdates(_, _, _)
AfterUpdates(sections, k, original) ==
    IF k = 0 THEN original
    ELSE replace_section(AfterUpdates(sections, k - 1, original),
                         sections[k].section_name, sections[k].updated_content)

\* C5: the updates of a batch are applied in batch order, the k-th to the
\* document produced by the first k-1: the text the run holds after the loop,
\* and the document it writes, is the original patched by update 1, then 2, ...
C5_UpdatesAppliedInOrder ==
    LET sections == sections_to_update(run.updates) IN
    /\ Patched =>
          run.updated_content =
              AfterUpdates(sections, Len(sections), run.current_content)
    /\ (stages # <<>> /\ stages[Len(stages)] = "document") =>
          Get(fs, TargetDoc) =
              AfterUpdates(sections, Len(sections), run.current_content)

\* on "## A", the first update renames the heading to "## B" and the second,
\* which targets "B", patches the renamed section: on the original document it
\* would have found nothing
C5_Witness ==
    /\ run.pc = "changelog"
    /\ Get(pre.fs, TargetDoc) = LineA
    /\ Len(sections_to_update(run.updates)) = 2
    /\ sections_to_update(run.updates)[1].section_name = <<"A">>
    /\ sections_to_update(run.updates)[2].section_name = <<"B">>
    /\ Get(fs, TargetDoc) = NewBody
    /\ replace_section(LineA, <<"B">>, NewBody) = LineA

StageOrder == <<"backup", "document", "changelog", "state">>

\* C6: the backup write completes before the target document is written, and
\* a run whose backup write fails stops with the document, the changelog and
\* the state file as they were before the run.
C6_BackupBeforeDocument ==
    /\ "document" \in ToSet(stages) =>
          /\ stages[1] = "backup"
          /\ HasKey(backups, BackupName(run.now))
    /\ Started /\ fs # pre.fs => "backup" \in ToSet(stages)
    /\ run.outcome = "backup_failed" =>
          /\ run.pc = "done"
          /\ fs = pre.fs /\ changelog = pre.changelog /\ stateFile = pre.stateFile

\* the backup write failed after the file was opened
C6_Witness ==
    /\ run.outcome = "backup_failed"
    /\ backups # pre.backups
    /\ HasKey(fs, TargetDoc) /\ fs = pre.fs

Malformed(updates) ==
    \/ "sections_to_update" \notin DOMAIN updates
    \/ "changelog_entry" \notin DOMAIN updates
    \/ "timestamp" \notin DOMAIN updates
    \/ \E i \in 1..Len(sections_to_update(updates)) :
          ~(SectionFields \subseteq DOMAIN sections_to_update(updates)[i])

\* C7: a batch that misses a required field is rejected as a whole: no section
\* edit reaches the document, no file is written, and the state file and the
\* changelog are not changed.
C7_MalformedBatchRejected ==
    (Started /\ Malformed(run.updates)) => Disk = pre

\* C8: when the target document does not exist the run stops before any
\* write: no backup, no document, changelog and state file untouched.
C8_MissingDocumentNoWrites ==
    (Started /\ ~HasKey(pre.fs, TargetDoc)) =>
        /\ Disk = pre
        /\ stages = <<>>
        /\ run.pc \in {"exists", "done"}
        /\ run.pc = "done" => run.outcome = "not_found"

C8_Witness ==
    /\ run.pc = "done" /\ run.outcome = "not_found"
    /\ ~HasKey(fs, TargetDoc)
    /\ sections_to_update(run.updates) # <<>>

C10_SaveStateAtomic ==
    run.outcome \in {"state_open_failed", "state_write_failed"} =>
        \/ stateFile = pre.stateFile
        \/ stateFile = Saved(get_repo_state(fs, CachePaths))

\* C17: once apply_updates has written its backup, the backup file of this run
\* holds the whole text the target document had when the run started, exactly
\* as it was, before any section update was applied.
C17_BackupHoldsPreRunText ==
    "backup" \in ToSet(stages) =>
        /\ HasKey(pre.fs, TargetDoc)
        /\ HasKey(backups, BackupName(run.now))
        /\ Get(backups, BackupName(run.now)) = Get(pre.fs, TargetDoc)

\* a printed line that tells the reader the section was not found
Warned(name) ==
    \E i \in 1..Len(run.printed) :
        /\ run.printed[i].msg # "Updating section"
        /\ run.printed[i].section_name = name

\* the updates of the batch whose section_name matches no heading of the
\* document they are applied to
Unmatched ==
    LET sections == sections_to_update(run.updates) IN
    {k \in 1..Len(sections) :
        Matches(Split(AfterUpdates(sections, k - 1, run.current_content)),
                sections[k].section_name) = {}}

\* the skipping alone: an update that matches nothing changes nothing, and
\* the loop goes on to the end of the batch
UnmatchedSkipped ==
    LET sections == sections_to_update(run.updates) IN
    (Patched /\ ~Malformed(run.updates)) =>
        /\ \A k \in Unmatched :
              AfterUpdates(sections, k, run.current_content) =
                  AfterUpdates(sections, k - 1, run.current_content)
        /\ run.updated_content =
              AfterUpdates(sections, Len(sections), run.current_content)
        /\ Len(run.printed) = Len(sections)

\* C15: an update whose section_name matches no heading is skipped, a warning
\* is recorded for it, the remaining updates of the batch are still applied,
\* and the apply is not aborted.
C15_UnmatchedSkippedWithWarning ==
    /\ UnmatchedSkipped
    /\ (Patched /\ ~Malformed(run.updates)) =>
          \A k \in Unmatched : Warned(sections_to_update(run.updates)[k].section_name)

EntryOf(h) == changelog_entry(h.updates, h.now).entry
NewestFirst == [i \in 1..Len(history) |-> EntryOf(history[Len(history) + 1 - i])]

\* C14: after any sequence of successful apply invocations by one writer the
\* changelog is one entry per invocation, newest first, above what it held
\* before the first of them; each _save_changelog call puts its entry in
\* front and leaves the whole earlier content unchanged below it.
C14_ChangelogNewestFirst ==
    /\ "changelog" \in ToSet(stages) =>
          changelog.text = <<EntryOf(run)>> \o pre.changelog.text
    /\ (run.pc = "idle" /\ history # <<>>) =>
          changelog.text = NewestFirst \o history[1].before.text

\* the same up to the line ends of the earlier content
ChangelogNewestFirstUpToLineEnds ==
    /\ "changelog" \in ToSet(stages) =>
          read_changelog(changelog.text) =
              read_changelog(<<EntryOf(run)>> \o pre.changelog.text)
    /\ (run.pc = "idle" /\ history # <<>>) =>
          /\ Len(changelog.text) = Len(history) + Len(history[1].before.text)
          /\ read_changelog(changelog.text) =
                read_changelog(NewestFirst \o history[1].before.text)

\* C21: after --reset-state the next change detection treats all tracked
\* files as new: it reports every tracked file as added.
C21_DiffAfterResetAllAdded ==
    (run.pc = "done" /\ run.outcome = "ok" /\ fs = pre.fs /\ changes.done) =>
        /\ ToSet(changes.added) = Keys(Scanned)
        /\ changes.modified = <<>> /\ changes.removed = <<>>

\* C23: after an apply_updates run that completed, a detect_changes that
\* follows at once, with no file changed in between, returns no added, no
\* modified and no removed path: the snapshot saved was taken after the
\* document was rewritten, and the files the run wrote in the cache directory
\* are not tracked.
C23_DiffAfterApplyIsEmpty ==
    (run.pc = "done" /\ run.outcome = "ok") =>
        /\ ~changes.raised
        /\ changes.done =>
              /\ changes.added = <<>>
              /\ changes.modified = <<>>
              /\ changes.removed = <<>>

\* a run that rewrote the document, left a backup, a changelog and a state
\* file, followed by a diff
C23_Witness ==
    /\ run.pc = "done" /\ run.outcome = "ok" /\ history = <<>>
    /\ Get(fs, TargetDoc) # Get(pre.fs, TargetDoc)
    /\ backups # <<>> /\ changelog.exists /\ stateFile.kind = "json"
    /\ changes.done

\* the ways a run ends before it reaches its state save
AbortOutcomes ==
    {"not_found", "read_failed", "backup_failed", "key_error", "write_failed",
     "changelog_unreadable", "changelog_failed"}

\* C24: an apply_updates run that aborts before its final state save leaves
\* the state file exactly as it was, even when the document has already been
\* rewritten, so the next detect_changes compares with the baseline from
\* before the run.
C24_AbortKeepsStateFile ==
    (run.pc = "done" /\ run.outcome \in AbortOutcomes) =>
        /\ stateFile = pre.stateFile
        /\ "state" \notin ToSet(stages)

\* a run that rewrote the document and then failed at the changelog, the
\* state file of the earlier run still in place
C24_Witness ==
    /\ run.pc = "done" /\ run.outcome = "changelog_failed"
    /\ Get(fs, TargetDoc) # Get(pre.fs, TargetDoc)
    /\ pre.stateFile = Saved(OldState)
    /\ stateFile = Saved(OldState)

-----------------------------------------------------------------------------
(* Claims about the state store *)

\* C11: _save_state(S) followed by _load_state() returns a mapping equal to
\* S, same paths and same digests, whatever the state file held before the
\* save: nothing of the earlier file survives.
C11_SaveLoadRoundTrip ==
    (run.pc = "loaded" /\ run.outcome = "ok") =>
        /\ run.loaded = run.current_state
        /\ Keys(run.loaded) = Keys(run.current_state)
        /\ \A p \in Keys(run.loaded) : Get(run.loaded, p) = Get(run.current_state, p)

\* a snapshot saved over a state file that had a path the snapshot lacks,
\* and loaded again
C11_Witness ==
    /\ run.pc = "loaded" /\ run.outcome = "ok"
    /\ run.loaded # <<>>
    /\ Keys(pre.stateFile.file_hashes) \ Keys(run.current_state) # {}

-----------------------------------------------------------------------------
(* Claims about two invocations *)

BothDone ==
    /\ run.pc = "done" /\ run.outcome = "ok"
    /\ sched.waiting.run.pc = "done" /\ sched.waiting.run.outcome = "ok"

\* both invocations left their mark: each one's entry is in the changelog,
\* the document has both patched sections, and the saved state is the state
\* of the files as they are
BothRecorded ==
    /\ ToSet(changelog.text) = {EntryOf(run), EntryOf(sched.waiting.run)}
    /\ Len(changelog.text) = Cardinality(ConcBatches)
    /\ changelog.text[1].time >= changelog.text[Len(changelog.text)].time
    /\ HasBlock(Get(fs, TargetDoc), NewA) /\ HasBlock(Get(fs, TargetDoc), NewB)
    /\ stateFile.kind = "json"
    /\ stateFile.file_hashes =
          <<<<"a.sql", Md5(<<"x">>)>>, <<TargetDoc, Md5(Get(fs, TargetDoc))>>>>

\* C16: when two apply invocations are serialized, no state is reachable in
\* which both completed and an update is lost (an entry missing from the
\* changelog or the changelog out of newest-first order, or the document or
\* the saved state reflecting only one of them); without serialization such
\* a state is reachable (C16_Witness).
C16_SerializedNoLostUpdate ==
    (sched.serialized /\ BothDone) => BothRecorded

\* two invocations that were not serialized, both completed, an update lost
C16_Witness ==
    /\ ~sched.serialized
    /\ BothDone
    /\ ~BothRecorded
    /\ Len(changelog.text) < Cardinality(ConcBatches)
          \/ ~HasBlock(Get(fs, TargetDoc), NewA)
          \/ ~HasBlock(Get(fs, TargetDoc), NewB)

-----------------------------------------------------------------------------
(* Claims about show_diff *)

\* C22: show_diff and detect_changes change nothing that is tracked: the
\* target document (and every other file of the repository), the state file,
\* the changelog and the backups stay as they were, and the diff repeated on
\* the unchanged files returns the same change set every time.
C22_DiffChangesNothing ==
    /\ Disk = pre
    /\ \A i, j \in 1..Len(history) : history[i] = history[j]

\* a diff that found changes and wrote its prompt, run twice
C22_Witness ==
    /\ Len(history) >= 2
    /\ promptFile.exists /\ promptFile.text # <<>>
    /\ history[1].added # <<>> /\ history[1].removed # <<>>

====
